---- MODULE Spec2Model ----
(***************************************************************************)
(* A model of vm.py: the Assembler (text -> 32-bit instruction words and   *)
(* an assembly trace) and the Interpretator (words -> a 256-cell memory    *)
(* and an execution trace), together with the driver main().               *)
(*                                                                         *)
(* Text is modelled as sequences of one-character strings.  Python         *)
(* integers are unbounded; an instruction word or a memory cell is kept as *)
(* two limbs [hi, lo] standing for hi * 2^16 + lo with lo in 0..65535 and  *)
(* hi any integer (negative for a negative number, two's complement).      *)
(***************************************************************************)
EXTENDS Integers, Sequences, FiniteSets, TLC

VARIABLES
    source_code,   \* main: the text read from the input file
    pc,            \* position of control (main, or the caller of execute)
    line_no,       \* assemble: number of source lines consumed by the loop
    machine_code,  \* assemble: the word list; then the argument of execute
    log,           \* assemble: the assembly trace
    error,         \* the exception raised, NoError when none
    binary_file,   \* main: bytes written to the binary file
    log_file,      \* main: the trace written to the log file
    memory,        \* Interpretator.memory (<<>> before construction)
    vm_log,        \* Interpretator.log
    index,         \* execute: number of words consumed by the loop
    result_file    \* main: the memory dump written, <<>> when not written

vars == <<source_code, pc, line_no, machine_code, log, error, binary_file,
          log_file, memory, vm_log, index, result_file>>

----------------------------------------------------------------------------
(* Bounds of the model.                                                    *)

MaxLines == 2      \* lines before the last line of a source text
MaxCode == 2       \* words of a word list given to a reused Interpretator
MaxRun == 3        \* words of a word list given to a new Interpretator
MaxLog == 2        \* execute is called again only while vm.log is shorter
MaxShifts == 17    \* SHIFT_LEFT words of the long shifting word lists

----------------------------------------------------------------------------
(* Integers of arbitrary size in two limbs.                                *)

Base == 65536
MemorySize == 256

Big(h, l) == [hi |-> h, lo |-> l]

\* an integer small enough for one machine integer, as limbs
ToBig(n) == Big(n \div Base, n % Base)

RECURSIVE BitOr(_, _)
\* Python's | on integers of either sign
BitOr(a, b) ==
    IF a = 0 THEN b
    ELSE IF b = 0 THEN a
    ELSE IF a = -1 \/ b = -1 THEN -1
    ELSE (IF a % 2 = 1 \/ b % 2 = 1 THEN 1 ELSE 0)
         + 2 * BitOr(a \div 2, b \div 2)

BigOr(x, y) == Big(BitOr(x.hi, y.hi), BitOr(x.lo, y.lo))

\* n << 16 and n << 24 for n that fits one limb pair
Shl16(n) == Big(n, 0)
Shl24(n) == Big(n * 256, 0)

\* (opcode << 24) | (reg << 16) | value
Encode(opcode, reg, value) ==
    BigOr(BigOr(Shl24(opcode), Shl16(reg)), ToBig(value))

\* (instruction >> 24) & 0xFF, (instruction >> 16) & 0xFF, instruction & 0xFFFF
OpcodeOf(instruction) == (instruction.hi \div 256) % 256
RegOf(instruction) == instruction.hi % 256
OperandOf(instruction) == instruction.lo

\* instruction.to_bytes(4, byteorder='big') succeeds
FitsFourBytes(w) == 0 <= w.hi /\ w.hi < Base

ToBytes(w) == <<w.hi \div 256, w.hi % 256, w.lo \div 256, w.lo % 256>>

----------------------------------------------------------------------------
(* Text.                                                                   *)

Whitespace == {" ", "\t"}
Digits == <<"0", "1", "2", "3", "4", "5", "6", "7", "8", "9">>
HexDigits == Digits \o <<"A", "B", "C", "D", "E", "F">>

IsDigit(c) == \E i \in 1..10 : Digits[i] = c
DigitValue(c) == (CHOOSE i \in 1..10 : Digits[i] = c) - 1

RECURSIVE SplitLines(_)
\* str.splitlines() for text whose only line boundary is "\n"
SplitLines(text) ==
    IF text = <<>> THEN <<>>
    ELSE IF \E i \in 1..Len(text) : text[i] = "\n"
         THEN LET i == CHOOSE j \in 1..Len(text) :
                          text[j] = "\n" /\ \A k \in 1..(j - 1) : text[k] # "\n"
              IN  <<SubSeq(text, 1, i - 1)>>
                  \o SplitLines(SubSeq(text, i + 1, Len(text)))
         ELSE <<text>>

\* str.strip()
Strip(line) ==
    IF \A i \in 1..Len(line) : line[i] \in Whitespace THEN <<>>
    ELSE LET first == CHOOSE i \in 1..Len(line) :
                          line[i] \notin Whitespace
                          /\ \A k \in 1..(i - 1) : line[k] \in Whitespace
             last == CHOOSE i \in 1..Len(line) :
                          line[i] \notin Whitespace
                          /\ \A k \in (i + 1)..Len(line) : line[k] \in Whitespace
         IN  SubSeq(line, first, last)

RECURSIVE Split(_)
\* str.split(): the maximal runs of non-whitespace characters
Split(line) ==
    LET s == Strip(line) IN
    IF s = <<>> THEN <<>>
    ELSE IF \E i \in 1..Len(s) : s[i] \in Whitespace
         THEN LET i == CHOOSE j \in 1..Len(s) :
                          s[j] \in Whitespace
                          /\ \A k \in 1..(j - 1) : s[k] \notin Whitespace
              IN  <<SubSeq(s, 1, i - 1)>> \o Split(SubSeq(s, i + 1, Len(s)))
         ELSE <<s>>

\* line.startswith(";")
StartsWithSemicolon(line) == Len(line) >= 1 /\ line[1] = ";"

\* the digits of an integer literal after its sign
Unsigned(tok) ==
    IF Len(tok) >= 1 /\ tok[1] \in {"+", "-"} THEN Tail(tok) ELSE tok

\* int(tok) does not raise: an optional sign, then digits, single
\* underscores allowed between digits
IsIntLiteral(tok) ==
    LET u == Unsigned(tok) IN
    /\ Len(u) >= 1
    /\ \A i \in 1..Len(u) : IsDigit(u[i]) \/ u[i] = "_"
    /\ u[1] # "_" /\ u[Len(u)] # "_"
    /\ \A i \in 1..(Len(u) - 1) : ~(u[i] = "_" /\ u[i + 1] = "_")

RECURSIVE DigitsValue(_)
DigitsValue(u) ==
    IF u = <<>> THEN 0
    ELSE IF u[Len(u)] = "_" THEN DigitsValue(SubSeq(u, 1, Len(u) - 1))
    ELSE 10 * DigitsValue(SubSeq(u, 1, Len(u) - 1)) + DigitValue(u[Len(u)])

\* int(tok)
IntOf(tok) ==
    IF Len(tok) >= 1 /\ tok[1] = "-" THEN 0 - DigitsValue(Unsigned(tok))
    ELSE DigitsValue(Unsigned(tok))

RECURSIVE HexOf(_)
\* the hexadecimal digits of a natural number, most significant first
HexOf(n) ==
    IF n < 16 THEN <<HexDigits[n + 1]>>
    ELSE HexOf(n \div 16) \o <<HexDigits[(n % 16) + 1]>>

RECURSIVE ZeroPad(_, _)
ZeroPad(s, width) == IF Len(s) >= width THEN s ELSE ZeroPad(<<"0">> \o s, width)

\* the hexadecimal digits of a non-negative limb pair
BigHex(w) == IF w.hi = 0 THEN HexOf(w.lo) ELSE HexOf(w.hi) \o ZeroPad(HexOf(w.lo), 4)

\* -w for a negative limb pair w
BigNeg(w) == IF w.lo = 0 THEN Big(0 - w.hi, 0) ELSE Big(0 - w.hi - 1, Base - w.lo)

\* f"{encoded:08X}": zero padding counts the sign in the width
Format08X(w) ==
    IF w.hi < 0 THEN <<"-">> \o ZeroPad(BigHex(BigNeg(w)), 7)
    ELSE ZeroPad(BigHex(w), 8)

----------------------------------------------------------------------------
(* Assembler.                                                              *)

mLOAD_CONSTANT == <<"L", "O", "A", "D", "_", "C", "O", "N", "S", "T", "A", "N", "T">>
mLOAD_MEMORY == <<"L", "O", "A", "D", "_", "M", "E", "M", "O", "R", "Y">>
mSTORE_TO_MEMORY ==
    <<"S", "T", "O", "R", "E", "_", "T", "O", "_", "M", "E", "M", "O", "R", "Y">>
mSHIFT_LEFT == <<"S", "H", "I", "F", "T", "_", "L", "E", "F", "T">>

\* self.instructions: 0xA4, 0x90, 0x1D, 0x4A
instructions ==
    (mLOAD_CONSTANT :> 164) @@ (mLOAD_MEMORY :> 144)
    @@ (mSTORE_TO_MEMORY :> 29) @@ (mSHIFT_LEFT :> 74)

\* An exception and what its message holds: the source line number (0 when
\* the message has none), the quoted text and the number it interpolates.
Raise(exc, what, n, text, value) ==
    [exc |-> exc, what |-> what, line |-> n, text |-> text, value |-> value,
     index |-> -1]

NoError == Raise("none", "", 0, <<>>, Big(0, 0))

lines == SplitLines(source_code)
line == Strip(lines[line_no + 1])
parts == Split(line)
command == parts[1]

\* a register check that lets 32 through
RegisterOkInclusive(reg) == 0 <= reg /\ reg <= 32

\* the STORE_TO_MEMORY checks
RegisterOk(reg) == 0 <= reg /\ reg < 32
AddressOk(address) == 0 <= address /\ address < 16777216

\* a trace record
Record(n, text, encoded) ==
    [line |-> n, instruction |-> text, binary |-> Format08X(encoded)]

\* The outcome of the branch of one mnemonic: the exception it raises, or
\* NoError and the word it appends.
BranchError(ranged) ==
    IF Len(parts) # 3
    THEN Raise("ValueError", "requires 2 arguments on line", line_no + 1, command, Big(0, 0))
    ELSE IF ~IsIntLiteral(parts[2])
    THEN Raise("ValueError", "invalid literal for int() with base 10", 0, parts[2], Big(0, 0))
    ELSE IF ~IsIntLiteral(parts[3])
    THEN Raise("ValueError", "invalid literal for int() with base 10", 0, parts[3], Big(0, 0))
    ELSE IF ranged /\ ~RegisterOk(IntOf(parts[2]))
    THEN Raise("ValueError", "Invalid register number", 0, <<>>, ToBig(IntOf(parts[2])))
    ELSE IF ranged /\ ~AddressOk(IntOf(parts[3]))
    THEN Raise("ValueError", "Invalid address", 0, <<>>, ToBig(IntOf(parts[3])))
    ELSE NoError

Branch(mnemonic, ranged) ==
    /\ pc = "assemble"
    /\ line_no < Len(lines)
    /\ line # <<>> /\ ~StartsWithSemicolon(line)
    /\ command = mnemonic
    /\ LET e == BranchError(ranged) IN
       IF e # NoError
       THEN /\ error' = e
            /\ pc' = "crashed"
            /\ UNCHANGED <<line_no, machine_code, log>>
       ELSE LET encoded == Encode(instructions[command], IntOf(parts[2]), IntOf(parts[3]))
            IN  /\ machine_code' = Append(machine_code, encoded)
                /\ log' = Append(log, Record(line_no + 1, line, encoded))
                /\ line_no' = line_no + 1
                /\ UNCHANGED <<error, pc>>
    /\ UNCHANGED <<source_code, binary_file, log_file, memory, vm_log, index, result_file>>

\* a blank line or a comment: continue
SkipLine ==
    /\ pc = "assemble"
    /\ line_no < Len(lines)
    /\ line = <<>> \/ StartsWithSemicolon(line)
    /\ line_no' = line_no + 1
    /\ UNCHANGED <<source_code, pc, machine_code, log, error, binary_file, log_file,
                   memory, vm_log, index, result_file>>

UnknownInstruction ==
    /\ pc = "assemble"
    /\ line_no < Len(lines)
    /\ line # <<>> /\ ~StartsWithSemicolon(line)
    /\ command \notin DOMAIN instructions
    /\ error' = Raise("ValueError", "Unknown instruction on line", line_no + 1, command, Big(0, 0))
    /\ pc' = "crashed"
    /\ UNCHANGED <<source_code, line_no, machine_code, log, binary_file, log_file,
                   memory, vm_log, index, result_file>>

LoadConstantLine == Branch(mLOAD_CONSTANT, FALSE)
StoreToMemoryLine == Branch(mSTORE_TO_MEMORY, TRUE)
LoadMemoryLine == Branch(mLOAD_MEMORY, FALSE)
ShiftLeftLine == Branch(mSHIFT_LEFT, FALSE)

\* return machine_code, log
AssembleReturn ==
    /\ pc = "assemble"
    /\ line_no = Len(lines)
    /\ pc' = "write"
    /\ UNCHANGED <<source_code, line_no, machine_code, log, error, binary_file, log_file,
                   memory, vm_log, index, result_file>>

----------------------------------------------------------------------------
(* main: the files.                                                        *)

RECURSIVE Bytes(_)
\* the bytes of the words that fit, up to the first word that does not
Bytes(code) ==
    IF code = <<>> \/ ~FitsFourBytes(Head(code)) THEN <<>>
    ELSE ToBytes(Head(code)) \o Bytes(Tail(code))

\* for instruction in machine_code: f.write(instruction.to_bytes(4, 'big'))
WriteBinary ==
    /\ pc = "write"
    /\ binary_file' = Bytes(machine_code)
    /\ IF \A i \in 1..Len(machine_code) : FitsFourBytes(machine_code[i])
       THEN pc' = "write_log" /\ UNCHANGED error
       ELSE /\ pc' = "crashed"
            /\ error' = Raise("OverflowError", "int too big to convert", 0, <<>>, Big(0, 0))
    /\ UNCHANGED <<source_code, line_no, machine_code, log, log_file,
                   memory, vm_log, index, result_file>>

\* json.dump(log, f)
WriteLog ==
    /\ pc = "write_log"
    /\ log_file' = log
    /\ pc' = "construct"
    /\ UNCHANGED <<source_code, line_no, machine_code, log, error, binary_file,
                   memory, vm_log, index, result_file>>

----------------------------------------------------------------------------
(* Interpretator.                                                          *)

Zero == Big(0, 0)
ZeroMemory == [i \in 0..(MemorySize - 1) |-> Zero]

\* vm = Interpretator(); vm.execute(machine_code)
NewInterpretator ==
    /\ pc = "construct"
    /\ memory' = ZeroMemory
    /\ vm_log' = <<>>
    /\ index' = 0
    /\ pc' = "execute"
    /\ UNCHANGED <<source_code, line_no, machine_code, log, error, binary_file,
                   log_file, result_file>>

instruction == machine_code[index + 1]

\* self.memory[reg] + offset
AddOffset(cell, offset) ==
    Big(cell.hi + ((cell.lo + offset) \div Base), (cell.lo + offset) % Base)

\* address < 0 or address >= len(self.memory)
InvalidAddress(address) ==
    address.hi < 0 \/ address.hi > 0 \/ address.lo >= MemorySize

\* a shift that does not mask to 32 bits
ShiftLeftUnmasked(value) ==
    Big(2 * value.hi + ((2 * value.lo) \div Base), (2 * value.lo) % Base)

\* (value << 1) & 0xFFFFFFFF
ShiftLeft(value) ==
    Big((2 * value.hi + ((2 * value.lo) \div Base)) % Base, (2 * value.lo) % Base)

Running == pc = "execute" /\ index < Len(machine_code)

\* a fault raised after the trace entry was appended
FaultAfterTrace(what, value) ==
    /\ error' = Raise("RuntimeError", what, 0, <<>>, value)
    /\ pc' = "raised"
    /\ vm_log' = Append(vm_log, [index |-> index, op |-> what, value |-> value])
    /\ UNCHANGED <<memory, index>>

Fault(what, value) ==
    /\ error' = Raise("RuntimeError", what, 0, <<>>, value)
    /\ pc' = "raised"
    /\ UNCHANGED <<memory, vm_log, index>>

ExecLoadConstant ==
    /\ Running
    /\ OpcodeOf(instruction) = 164
    /\ LET reg == RegOf(instruction)
           value == Big(0, OperandOf(instruction))
       IN  /\ memory' = [memory EXCEPT ![reg] = value]
           /\ vm_log' = Append(vm_log, [index |-> index, op |-> "LOAD_CONSTANT",
                                        value |-> value, reg |-> reg])
    /\ index' = index + 1
    /\ UNCHANGED <<source_code, pc, line_no, machine_code, log, error, binary_file,
                   log_file, result_file>>

ExecLoadMemory ==
    /\ Running
    /\ OpcodeOf(instruction) = 144
    /\ LET reg == RegOf(instruction)
           address == AddOffset(memory[reg], OperandOf(instruction))
       IN  IF InvalidAddress(address)
           THEN Fault("LOAD_MEMORY failed: Invalid address", address)
           ELSE LET value == memory[address.lo] IN
                /\ memory' = [memory EXCEPT ![reg] = value]
                /\ vm_log' = Append(vm_log, [index |-> index, op |-> "LOAD_MEMORY",
                                             value |-> value, address |-> address.lo,
                                             reg |-> reg])
                /\ index' = index + 1
                /\ UNCHANGED <<pc, error>>
    /\ UNCHANGED <<source_code, line_no, machine_code, log, binary_file,
                   log_file, result_file>>

\* a store that adds the register's contents to the address
ExecStoreToMemoryIndexed ==
    /\ Running
    /\ OpcodeOf(instruction) = 29
    /\ LET reg == RegOf(instruction)
           address == AddOffset(memory[reg], OperandOf(instruction))
           value == memory[reg]
       IN  IF InvalidAddress(address)
           THEN Fault("STORE_TO_MEMORY failed: Invalid address", address)
           ELSE /\ memory' = [memory EXCEPT ![address.lo] = value]
                /\ vm_log' = Append(vm_log, [index |-> index, op |-> "STORE_TO_MEMORY",
                                             value |-> value, address |-> address.lo])
                /\ index' = index + 1
                /\ UNCHANGED <<pc, error>>
    /\ UNCHANGED <<source_code, line_no, machine_code, log, binary_file,
                   log_file, result_file>>

ExecStoreToMemory ==
    /\ Running
    /\ OpcodeOf(instruction) = 29
    /\ LET reg == RegOf(instruction)
           address == Big(0, OperandOf(instruction))
           value == memory[reg]
       IN  IF InvalidAddress(address)
           THEN Fault("STORE_TO_MEMORY failed: Invalid address", address)
           ELSE /\ memory' = [memory EXCEPT ![address.lo] = value]
                /\ vm_log' = Append(vm_log, [index |-> index, op |-> "STORE_TO_MEMORY",
                                             value |-> value, address |-> address.lo])
                /\ index' = index + 1
                /\ UNCHANGED <<pc, error>>
    /\ UNCHANGED <<source_code, line_no, machine_code, log, binary_file,
                   log_file, result_file>>

ExecShiftLeft ==
    /\ Running
    /\ OpcodeOf(instruction) = 74
    /\ LET reg == RegOf(instruction)
           shifted_value == ShiftLeft(memory[reg])
       IN  /\ memory' = [memory EXCEPT ![reg] = shifted_value]
           /\ vm_log' = Append(vm_log, [index |-> index, op |-> "SHIFT_LEFT",
                                        reg |-> reg, value |-> shifted_value])
    /\ index' = index + 1
    /\ UNCHANGED <<source_code, pc, line_no, machine_code, log, error, binary_file,
                   log_file, result_file>>

ExecUnknownOpcode ==
    /\ Running
    /\ OpcodeOf(instruction) \notin {164, 144, 29, 74}
    /\ error' = [Raise("RuntimeError", "Unknown opcode at index", 0, <<>>,
                       Big(0, OpcodeOf(instruction))) EXCEPT !.index = index]
    /\ pc' = "raised"
    /\ UNCHANGED <<source_code, line_no, machine_code, log, binary_file, log_file,
                   memory, vm_log, index, result_file>>

\* main: json.dump(vm.get_memory_dump(), f) after execute has returned
DumpMemory ==
    /\ pc = "execute"
    /\ index = Len(machine_code)
    /\ result_file' = memory
    /\ pc' = "done"
    /\ UNCHANGED <<source_code, line_no, machine_code, log, error, binary_file,
                   log_file, memory, vm_log, index>>

\* main: except RuntimeError as e: print(...)
ExecutionError ==
    /\ pc = "raised"
    /\ pc' = "done"
    /\ UNCHANGED <<source_code, line_no, machine_code, log, error, binary_file,
                   log_file, memory, vm_log, index, result_file>>

----------------------------------------------------------------------------
(* The caller of an Interpretator that is used for several runs.           *)

\* vm.execute(code) on an existing instance; an earlier RuntimeError was
\* caught by the caller
CallExecute(code) ==
    /\ pc \in {"idle", "raised"}
    /\ Len(vm_log) < MaxLog
    /\ machine_code' = code
    /\ index' = 0
    /\ error' = NoError
    /\ pc' = "execute"
    /\ UNCHANGED <<source_code, line_no, log, binary_file, log_file,
                   memory, vm_log, result_file>>

\* the for loop of execute ends and the call returns
ExecuteReturn ==
    /\ pc = "execute"
    /\ index = Len(machine_code)
    /\ pc' = "idle"
    /\ UNCHANGED <<source_code, line_no, machine_code, log, error, binary_file,
                   log_file, memory, vm_log, index, result_file>>

----------------------------------------------------------------------------
(* Inputs.                                                                 *)

RECURSIVE Decimal(_)
\* the decimal literal of an integer
Decimal(n) ==
    IF n < 0 THEN <<"-">> \o Decimal(0 - n)
    ELSE IF n < 10 THEN <<Digits[n + 1]>>
    ELSE Decimal(n \div 10) \o <<Digits[(n % 10) + 1]>>

RECURSIVE Join(_, _)
Join(seqs, sep) ==
    IF seqs = <<>> THEN <<>>
    ELSE IF Len(seqs) = 1 THEN seqs[1]
    ELSE seqs[1] \o sep \o Join(Tail(seqs), sep)

SeqsUpTo(S, n) == UNION {[1..k -> S] : k \in 0..n}

Mnemonics == {mLOAD_CONSTANT, mLOAD_MEMORY, mSTORE_TO_MEMORY, mSHIFT_LEFT}
RegisterValues == {0, 1, 32, 256, -1}
OperandValues == {0, 10, 300, 65536, 16777216, -1}

Instr(m, reg, value) == Join(<<m, Decimal(reg), Decimal(value)>>, <<" ">>)

\* lines of well-formed shape, over every mnemonic
ShapedLines ==
    {Instr(m, r, v) : m \in Mnemonics, r \in RegisterValues, v \in OperandValues}

\* other lines: blank, comments, extra whitespace, signs and underscores,
\* an unknown mnemonic, wrong argument counts, malformed operands
OtherLines ==
    { <<>>,
      <<" ", "\t">>,
      <<";", " ", "c">>,
      <<" ", ";", "L">>,
      <<" ", " ">> \o mLOAD_CONSTANT \o <<" ", " ", "1", "\t", "5", " ">>,
      Join(<<mLOAD_CONSTANT, <<"+", "1">>, <<"6", "_", "5">>>>, <<" ">>),
      Instr(mLOAD_CONSTANT, 0, 5),
      Instr(mLOAD_CONSTANT, 255, 65535),
      Instr(mSHIFT_LEFT, 65536, 0),
      Instr(mSTORE_TO_MEMORY, 31, 16777215),
      Join(<<<<"F", "O", "O">>, <<"1">>, <<"2">>>>, <<" ">>),
      Join(<<<<"l", "o", "a", "d">>>>, <<" ">>),
      Join(<<mLOAD_CONSTANT, <<"1">>>>, <<" ">>),
      Join(<<mSHIFT_LEFT, <<"1">>, <<"2">>, <<"3">>>>, <<" ">>),
      Join(<<mSTORE_TO_MEMORY>>, <<" ">>),
      Join(<<mLOAD_MEMORY, <<"x">>, <<"1">>>>, <<" ">>),
      Join(<<mSTORE_TO_MEMORY, <<"4", "0">>, <<"5", "x">>>>, <<" ">>),
      Join(<<mLOAD_CONSTANT, <<"1", "_">>, <<"-">>>>, <<" ">>) }

\* the lines that come before the last one
CoreLines ==
    { Instr(mLOAD_CONSTANT, 0, 5), Instr(mSHIFT_LEFT, 0, 0), <<";", " ", "c">>, <<>> }

\* what may follow the last line
Suffixes == { <<>>, <<Instr(mSTORE_TO_MEMORY, 0, 10)>> }

Sources ==
    { Join(p \o <<l>> \o s, <<"\n">>) :
        p \in SeqsUpTo(CoreLines, MaxLines), l \in ShapedLines \cup OtherLines,
        s \in Suffixes }

\* a word from its fields
Word(opcode, reg, operand) == Big(opcode * 256 + reg, operand)

ExecWords ==
    { Word(164, 0, 5), Word(164, 1, 200), Word(144, 1, 100), Word(29, 0, 10),
      Word(29, 1, 300), Word(74, 0, 0), Big(-1, 65535) }

\* LOAD_CONSTANT 0 c followed by MaxShifts SHIFT_LEFT 0
ShiftCode(c) == <<Word(164, 0, c)>> \o [i \in 1..MaxShifts |-> Word(74, 0, 0)]

ExecCodes == SeqsUpTo(ExecWords, MaxCode) \cup {ShiftCode(32768), ShiftCode(65535)}

RunCodes == SeqsUpTo(ExecWords, MaxRun) \cup {ShiftCode(32768), ShiftCode(65535)}

----------------------------------------------------------------------------
(* Specifications.                                                         *)

\* main() on an input file
Init ==
    /\ source_code \in Sources
    /\ pc = "assemble"
    /\ line_no = 0
    /\ machine_code = <<>>
    /\ log = <<>>
    /\ error = NoError
    /\ binary_file = <<>>
    /\ log_file = <<>>
    /\ memory = <<>>
    /\ vm_log = <<>>
    /\ index = 0
    /\ result_file = <<>>

Next ==
    \/ SkipLine
    \/ UnknownInstruction
    \/ LoadConstantLine
    \/ StoreToMemoryLine
    \/ LoadMemoryLine
    \/ ShiftLeftLine
    \/ AssembleReturn
    \/ WriteBinary
    \/ WriteLog
    \/ NewInterpretator
    \/ ExecLoadConstant
    \/ ExecLoadMemory
    \/ ExecStoreToMemory
    \/ ExecShiftLeft
    \/ ExecUnknownOpcode
    \/ DumpMemory
    \/ ExecutionError

Spec == Init /\ [][Next]_vars

\* an Interpretator, constructed, on which execute is called with word
\* lists supplied by the caller
InitVM ==
    /\ source_code = <<>>
    /\ pc = "idle"
    /\ line_no = 0
    /\ machine_code = <<>>
    /\ log = <<>>
    /\ error = NoError
    /\ binary_file = <<>>
    /\ log_file = <<>>
    /\ memory = ZeroMemory
    /\ vm_log = <<>>
    /\ index = 0
    /\ result_file = <<>>

NextVM ==
    \/ \E code \in ExecCodes : CallExecute(code)
    \/ ExecLoadConstant
    \/ ExecLoadMemory
    \/ ExecStoreToMemory
    \/ ExecShiftLeft
    \/ ExecUnknownOpcode
    \/ ExecuteReturn

SpecVM == InitVM /\ [][NextVM]_vars

\* vm = Interpretator(); vm.execute(code), for a word list supplied by the
\* caller
InitRun ==
    /\ source_code = <<>>
    /\ pc = "execute"
    /\ line_no = 0
    /\ machine_code \in RunCodes
    /\ log = <<>>
    /\ error = NoError
    /\ binary_file = <<>>
    /\ log_file = <<>>
    /\ memory = ZeroMemory
    /\ vm_log = <<>>
    /\ index = 0
    /\ result_file = <<>>

NextRun ==
    \/ ExecLoadConstant
    \/ ExecLoadMemory
    \/ ExecStoreToMemory
    \/ ExecShiftLeft
    \/ ExecUnknownOpcode
    \/ ExecuteReturn

SpecRun == InitRun /\ [][NextRun]_vars

----------------------------------------------------------------------------
(* Properties of the assembler.                                            *)

KnownOpcodes == {164, 144, 29, 74}

\* assemble has just appended a word for the current line
Emits == pc = "assemble" /\ Len(machine_code') = Len(machine_code) + 1

EmittedWord == machine_code'[Len(machine_code')]

\* C1: for every accepted line, the fields decoded from the emitted word are
\* the opcode of the mnemonic, the register and the operand of the line; the
\* operand alone may differ, by coming back modulo 65536 when it is above
\* 65535 on a LOAD_CONSTANT, LOAD_MEMORY or SHIFT_LEFT line.
C1_RoundTrip ==
    [][Emits =>
        LET reg == IntOf(parts[2])
            operand == IntOf(parts[3])
        IN  /\ OpcodeOf(EmittedWord) = instructions[command]
            /\ RegOf(EmittedWord) = reg
            /\ \/ OperandOf(EmittedWord) = operand
               \/ /\ command # mSTORE_TO_MEMORY
                  /\ operand > 65535
                  /\ OperandOf(EmittedWord) = operand % 65536]_vars

\* C2: every word of the assembler's output is in 0 .. 2^32 - 1.
C2_WordsAreUnsigned32 ==
    \A i \in 1..Len(machine_code) :
        /\ 0 <= machine_code[i].hi /\ machine_code[i].hi < 65536
        /\ 0 <= machine_code[i].lo /\ machine_code[i].lo < 65536

\* the current line has a mnemonic and two integer operands
TwoIntegers ==
    /\ pc = "assemble"
    /\ line_no < Len(lines)
    /\ Len(parts) = 3
    /\ command \in Mnemonics
    /\ IsIntLiteral(parts[2])
    /\ IsIntLiteral(parts[3])

OutOfStoreRange ==
    \/ IntOf(parts[2]) < 0 \/ IntOf(parts[2]) >= 32
    \/ IntOf(parts[3]) < 0 \/ IntOf(parts[3]) >= 16777216

\* C3: a STORE_TO_MEMORY line with two integers whose register is outside
\* [0, 32) or whose address is outside [0, 2^24) raises a range error and
\* appends no word; a line of another mnemonic with two integers never
\* raises and is encoded, whatever the two values.
C3_RangeCheckOnlyOnStore ==
    [][TwoIntegers =>
        IF command = mSTORE_TO_MEMORY
        THEN OutOfStoreRange =>
                /\ pc' = "crashed"
                /\ error'.exc = "ValueError"
                /\ error'.what \in {"Invalid register number", "Invalid address"}
                /\ machine_code' = machine_code
                /\ log' = log
        ELSE /\ pc' = "assemble"
             /\ error' = NoError
             /\ Len(machine_code') = Len(machine_code) + 1
             /\ line_no' = line_no + 1]_vars

\* a STORE_TO_MEMORY line was refused for its register, after an earlier
\* line was encoded
C3_Witness ==
    /\ pc = "crashed"
    /\ error.what = "Invalid register number"
    /\ Split(lines[line_no + 1])[1] = mSTORE_TO_MEMORY
    /\ IntOf(Split(lines[line_no + 1])[2]) = 32
    /\ Len(machine_code) >= 1

IsHexDigit(c) == \E i \in 1..16 : HexDigits[i] = c

RECURSIVE HexValue(_)
HexValue(s) ==
    IF s = <<>> THEN 0
    ELSE 16 * HexValue(SubSeq(s, 1, Len(s) - 1))
         + (CHOOSE i \in 0..15 : HexDigits[i + 1] = s[Len(s)])

\* b is the 8-digit uppercase hexadecimal numeral of the word w
IsHex8Of(b, w) ==
    /\ Len(b) = 8
    /\ \A i \in 1..8 : IsHexDigit(b[i])
    /\ HexValue(SubSeq(b, 1, 4)) = w.hi
    /\ HexValue(SubSeq(b, 5, 8)) = w.lo

IsSkipped(text) == Strip(text) = <<>> \/ Strip(text)[1] = ";"

\* C4: the words and the trace records have the same count; record i holds
\* the number of a processed line, that line's trimmed text and the 8-digit
\* uppercase hexadecimal numeral of word i; line numbers increase; no blank
\* line and no comment line has a record.
C4_TraceMatchesWords ==
    /\ Len(log) = Len(machine_code)
    /\ \A i \in 1..Len(log) :
          /\ log[i].line \in 1..Len(lines)
          /\ log[i].line <= line_no
          /\ log[i].instruction = Strip(lines[log[i].line])
          /\ ~IsSkipped(lines[log[i].line])
          /\ IsHex8Of(log[i].binary, machine_code[i])
    /\ \A i, j \in 1..Len(log) : i < j => log[i].line < log[j].line

\* C8: every failure of assemble carries the number of the line that caused
\* it, which is the line after those already processed.
C8_ErrorsCarryLineNumber ==
    (pc = "crashed" /\ error.exc = "ValueError") => error.line = line_no + 1

\* C9: the words of an accepted source all have a table opcode, and running
\* them never ends in an unknown-opcode fault.
C9_OnlyKnownOpcodes ==
    /\ \A i \in 1..Len(machine_code) : OpcodeOf(machine_code[i]) \in KnownOpcodes
    /\ error.what # "Unknown opcode at index"

----------------------------------------------------------------------------
(* Properties of the interpreter.                                          *)

\* (2 * c) mod 2^32
TwiceMod32(c) ==
    LET low == c.lo + c.lo
        carry == IF low >= 65536 THEN 1 ELSE 0
    IN  Big((c.hi + c.hi + carry) % 65536, low - carry * 65536)

\* the state change of one non-faulting word
RefStep(mem, w) ==
    LET opcode == OpcodeOf(w)
        reg == RegOf(w)
        operand == OperandOf(w)
    IN  CASE opcode = 164 -> [mem EXCEPT ![reg] = Big(0, operand)]
          [] opcode = 144 -> [mem EXCEPT ![reg] = mem[mem[reg].lo + operand]]
          [] opcode = 29 -> [mem EXCEPT ![operand] = mem[reg]]
          [] opcode = 74 -> [mem EXCEPT ![reg] = TwiceMod32(mem[reg])]

RECURSIVE RefRun(_, _)
\* the memory after the first k words of code, from all-zero memory
RefRun(code, k) == IF k = 0 THEN ZeroMemory ELSE RefStep(RefRun(code, k - 1), code[k])

\* the word w faults on the memory mem
Faulting(w, mem) ==
    \/ /\ OpcodeOf(w) = 144
       /\ \/ mem[RegOf(w)].hi # 0
          \/ mem[RegOf(w)].lo + OperandOf(w) >= 256
    \/ OpcodeOf(w) = 29 /\ OperandOf(w) >= 256
    \/ OpcodeOf(w) \notin KnownOpcodes

\* C5: a faulting word at index k stops execution there and changes
\* nothing; after the fault the memory is the one the words 0..k-1 produce,
\* the trace has k entries, and nothing is executed any more.
C5_FaultHaltsExecution ==
    /\ [][(Running /\ Faulting(instruction, memory)) =>
            /\ pc' = "raised"
            /\ error'.exc = "RuntimeError"
            /\ UNCHANGED <<memory, vm_log, index, machine_code>>]_vars
    /\ [](pc = "raised" =>
            /\ index < Len(machine_code)
            /\ memory = RefRun(machine_code, index)
            /\ Len(vm_log) = index)
    /\ [][pc = "raised" => UNCHANGED <<memory, vm_log, index, machine_code>>]_vars

\* a fault at an index k >= 1, after a cell was changed and with a word
\* still to come
C5_Witness ==
    /\ pc = "raised"
    /\ index >= 1
    /\ index + 1 < Len(machine_code)
    /\ memory # ZeroMemory

\* C6: SHIFT_LEFT never faults and doubles cell[register] modulo 2^32, so
\* that 0x80000000 becomes 0; every cell is always in 0 .. 2^32 - 1.
C6_ShiftLeftWraps ==
    /\ [][(Running /\ OpcodeOf(instruction) = 74) =>
            LET reg == RegOf(instruction) IN
            /\ pc' = "execute"
            /\ error' = error
            /\ index' = index + 1
            /\ memory'[reg] = TwiceMod32(memory[reg])
            /\ memory[reg] = Big(32768, 0) => memory'[reg] = Big(0, 0)]_vars
    /\ [](/\ DOMAIN memory = 0..255
          /\ \A i \in 0..255 :
                /\ 0 <= memory[i].hi /\ memory[i].hi < 65536
                /\ 0 <= memory[i].lo /\ memory[i].lo < 65536)

\* SHIFT_LEFT has just been applied to a cell that held 0x80000000
C6_Witness ==
    \E k \in 2..Len(vm_log) :
        /\ index = k
        /\ vm_log[k - 1].op = "SHIFT_LEFT"
        /\ vm_log[k - 1].value = Big(32768, 0)
        /\ vm_log[k].op = "SHIFT_LEFT"
        /\ vm_log[k].reg = vm_log[k - 1].reg
        /\ vm_log[k].value = Big(0, 0)
        /\ memory[vm_log[k].reg] = Big(0, 0)

ExampleSource ==
    Join(<<Instr(mLOAD_CONSTANT, 0, 5), Instr(mSHIFT_LEFT, 0, 0),
           Instr(mSTORE_TO_MEMORY, 0, 10)>>, <<"\n">>)

\* 0xA4000005, 0x4A000000, 0x1D00000A
ExampleWords == <<Big(41984, 5), Big(18944, 0), Big(7424, 10)>>

ExampleMemory == [i \in 0..255 |-> IF i \in {0, 10} THEN Big(0, 10) ELSE Big(0, 0)]

\* C7: from all-zero memory, the memory after k executed words is the one
\* got by applying to words 0..k-1, in order, the state change of each
\* opcode; the words are consumed one at a time; the example source gives
\* the words 0xA4000005, 0x4A000000, 0x1D00000A and ends with cells 0 and 10
\* holding 10 and every other cell 0.
C7_ExecuteSemantics ==
    /\ [](memory # <<>> => memory = RefRun(machine_code, index))
    /\ [][pc = "execute" =>
            /\ index' \in {index, index + 1}
            /\ machine_code' = machine_code]_vars
    /\ []((source_code = ExampleSource /\ pc \in {"execute", "raised", "done"}) =>
            /\ machine_code = ExampleWords
            /\ pc # "raised"
            /\ pc = "done" => (memory = ExampleMemory /\ result_file = ExampleMemory))

\* the example source has run to its end
C7_Witness ==
    /\ source_code = ExampleSource
    /\ pc = "done"
    /\ index = 3
    /\ memory = ExampleMemory

\* C10: when a call of execute starts, every cell is 0 and the execution
\* trace is empty.
C10_FreshStateEachCall ==
    (pc = "execute" /\ index = 0) => (memory = ZeroMemory /\ vm_log = <<>>)

====
